---------------------------- MODULE Spec2Model ----------------------------
(***************************************************************************)
(* CI Janitor (sharram/hackathon, src/agent.py): the approval-gated        *)
(* diagnose / propose / apply pipeline of CIFixAgent.run, the repository   *)
(* mutators of FilesystemTool, and the pure log helpers.                   *)
(*                                                                         *)
(* Text is modelled at character level: a Python str is a sequence of      *)
(* one-character strings, so the regular-expression search, str.strip,     *)
(* str.splitlines, slicing and concatenation are computed as the code      *)
(* computes them.                                                          *)
(***************************************************************************)
EXTENDS Integers, Sequences, FiniteSets, TLC

(***************************************************************************)
(* Bounds of the model.                                                    *)
(***************************************************************************)
\* invocations of the agent against one repository
MaxRuns == 2
\* characters of a manifest text handed to add_dependency directly
MaxManifestLen == 3
\* characters of a dependency name handed to add_dependency directly
MaxNameLen == 3
\* characters of a path handed to create_placeholder_file directly
MaxPathLen == 3
\* direct calls of one helper in a row
MaxCalls == 2
\* characters of a log text handed to make_log_excerpt directly
MaxLogLen == 4
\* largest max_lines / max_chars handed to make_log_excerpt directly
MaxLines == 2
MaxChars == 3

(***************************************************************************)
(* Characters and the literal phrases of the source.                       *)
(***************************************************************************)
NL == "\n"
SQ == "'"
DQ == "\""

\* str.strip / str.splitlines: the whitespace and line-break characters of
\* the modelled alphabet
Whitespace == {" ", NL}
QuoteChars == {SQ, DQ}

\* r"No module named ['\"]([^'\"]+)['\"]"  (the literal prefix)
NoModuleNamed ==
    <<"N","o"," ","m","o","d","u","l","e"," ","n","a","m","e","d"," ">>

\* r"No such file or directory: ['\"]([^'\"]+)['\"]"  (the literal prefix)
NoSuchFile ==
    <<"N","o"," ","s","u","c","h"," ","f","i","l","e"," ","o","r"," ",
      "d","i","r","e","c","t","o","r","y",":"," ">>

\* keywords of make_log_excerpt
KwModuleNotFound ==
    <<"M","o","d","u","l","e","N","o","t","F","o","u","n","d",
      "E","r","r","o","r">>
KwFileNotFound ==
    <<"F","i","l","e","N","o","t","F","o","u","n","d","E","r","r","o","r">>
KwNoSuchFile ==
    <<"N","o"," ","s","u","c","h"," ","f","i","l","e"," ","o","r"," ",
      "d","i","r","e","c","t","o","r","y">>
keywords == <<KwModuleNotFound, KwFileNotFound, KwNoSuchFile>>

\* "\n... (truncated)"
TruncationMarker ==
    <<NL,".",".","."," ","(","t","r","u","n","c","a","t","e","d",")">>

\* Path("requirements.txt")
RequirementsTxt ==
    <<"r","e","q","u","i","r","e","m","e","n","t","s",".","t","x","t">>

(***************************************************************************)
(* Python's str operations on character sequences.                         *)
(***************************************************************************)
None == <<>>
Some(x) == <<x>>

Min(a, b) == IF a < b THEN a ELSE b
Max(a, b) == IF a > b THEN a ELSE b

\* s[i:j] with 0-based, end-exclusive Python indices, 0 <= i, j
Slice(s, i, j) == SubSeq(s, i + 1, Min(j, Len(s)))

\* s.startswith(p, i) with a 1-based position i
StartsAt(s, p, i) ==
    /\ i + Len(p) - 1 <= Len(s)
    /\ \A k \in 1..Len(p) : s[i + k - 1] = p[k]

\* sub in s
Contains(s, sub) == \E i \in 1..(Len(s) + 1) : StartsAt(s, sub, i)

\* s.endswith("\n")
EndsWithNL(s) == Len(s) > 0 /\ s[Len(s)] = NL

RECURSIVE LStrip(_)
LStrip(s) ==
    IF s # <<>> /\ Head(s) \in Whitespace THEN LStrip(Tail(s)) ELSE s

RECURSIVE RStrip(_)
RStrip(s) ==
    IF s # <<>> /\ s[Len(s)] \in Whitespace
    THEN RStrip(SubSeq(s, 1, Len(s) - 1))
    ELSE s

\* str.strip()
Strip(s) == RStrip(LStrip(s))

\* str.splitlines(): the text between line breaks; a final line break
\* opens no further line
\* position of the first line break at or after i, Len(s) + 1 when none
NextBreak(s, i) ==
    CHOOSE j \in i..(Len(s) + 1) :
        /\ j = Len(s) + 1 \/ s[j] = NL
        /\ \A k \in i..(j - 1) : s[k] # NL

\* the lines of s from position i on
RECURSIVE LinesFrom(_, _)
LinesFrom(s, i) ==
    IF i > Len(s) THEN <<>>
    ELSE <<SubSeq(s, i, NextBreak(s, i) - 1)>>
         \o LinesFrom(s, NextBreak(s, i) + 1)

SplitLines(s) == LinesFrom(s, 1)

\* "\n".join(lines)
RECURSIVE JoinLines(_)
JoinLines(lines) ==
    IF lines = <<>> THEN <<>>
    ELSE IF Len(lines) = 1 THEN lines[1]
    ELSE lines[1] \o <<NL>> \o JoinLines(Tail(lines))

\* [f(x) for x in seq if keep(x)] for f = strip, keep = non-blank
RECURSIVE StrippedNonBlank(_)
StrippedNonBlank(lines) ==
    IF lines = <<>> THEN <<>>
    ELSE IF Strip(Head(lines)) # <<>>
         THEN <<Strip(Head(lines))>> \o StrippedNonBlank(Tail(lines))
         ELSE StrippedNonBlank(Tail(lines))

\* x in list
InList(x, list) == \E i \in 1..Len(list) : list[i] = x

\* all strings over an alphabet up to a length
RECURSIVE StringsUpTo(_, _)
StringsUpTo(alphabet, n) ==
    IF n = 0 THEN {<<>>}
    ELSE LET shorter == StringsUpTo(alphabet, n - 1)
         IN  shorter \cup {Append(s, c) : s \in shorter, c \in alphabet}


(***************************************************************************)
(* Program constants.                                                      *)
(***************************************************************************)
\* make_log_excerpt(logs, max_lines=30, max_chars=1800)
DefaultMaxLines == 30
DefaultMaxChars == 1800
\* start = max(0, idx - 10); end = min(len(lines), idx + 10)
ContextLines == 10

(***************************************************************************)
(* find_missing_dependency / find_missing_file_path:                       *)
(* re.search(prefix + r"['\"]([^'\"]+)['\"]", logs), then group(1).strip() *)
(***************************************************************************)
\* 1-based position of the first quote character at or after i, 0 if none
NextQuote(s, i) ==
    LET qs == {j \in i..Len(s) : s[j] \in QuoteChars}
    IN  IF qs = {} THEN 0
        ELSE CHOOSE j \in qs : \A k \in qs : j <= k

\* the pattern matches with its literal prefix starting at position i
MatchAt(prefix, s, i) ==
    LET q == i + Len(prefix)
        e == NextQuote(s, q + 1)
    IN  /\ StartsAt(s, prefix, i)
        /\ q <= Len(s)
        /\ s[q] \in QuoteChars
        /\ e > q + 1

\* group(1) of the match at position i
GroupAt(prefix, s, i) ==
    LET q == i + Len(prefix)
    IN  SubSeq(s, q + 1, NextQuote(s, q + 1) - 1)

\* faulty variant: the literal prefix alone is searched for and the rest of
\* the text is the group, quoted or not
ReSearchUnquoted(prefix, s) ==
    LET hits == {i \in 1..Len(s) : StartsAt(s, prefix, i)}
    IN  IF hits = {} THEN None
        ELSE LET first == CHOOSE i \in hits : \A j \in hits : i <= j
             IN  Some(SubSeq(s, first + Len(prefix), Len(s)))

\* re.search: the leftmost match, or None
ReSearch(prefix, s) ==
    LET hits == {i \in 1..Len(s) : MatchAt(prefix, s, i)}
    IN  IF hits = {} THEN None
        ELSE LET first == CHOOSE i \in hits : \A j \in hits : i <= j
             IN  Some(GroupAt(prefix, s, first))

\* faulty variant: group(1) is returned as it stands, without .strip()
FindMissingDependencyUnstripped(text) ==
    LET m == ReSearch(NoModuleNamed, text)
    IN  IF m = None THEN None ELSE Some(m[1])

find_missing_dependency(text) ==
    LET m == ReSearch(NoModuleNamed, text)
    IN  IF m = None THEN None ELSE Some(Strip(m[1]))

find_missing_file_path(text) ==
    LET m == ReSearch(NoSuchFile, text)
    IN  IF m = None THEN None ELSE Some(Strip(m[1]))

\* Python truthiness of an Optional[str]: `if dep:`
Truthy(opt) == opt # None /\ opt[1] # <<>>

(***************************************************************************)
(* make_log_excerpt                                                        *)
(***************************************************************************)
\* next((i for i, l in enumerate(lines) if k in l), None), 0-based; -1: None
FirstLineWith(lines, k) ==
    LET hits == {i \in 1..Len(lines) : Contains(lines[i], k)}
    IN  IF hits = {} THEN -1
        ELSE (CHOOSE i \in hits : \A j \in hits : i <= j) - 1

\* faulty variant: the first line holding any of the keywords, whatever
\* its place in the list
KeywordIndexAnyKeyword(lines, n) ==
    LET hits == {i \in 1..Len(lines) :
                    \E k \in n..Len(keywords) : Contains(lines[i], keywords[k])}
    IN  IF hits = {} THEN -1
        ELSE (CHOOSE i \in hits : \A j \in hits : i <= j) - 1

\* for k in keywords: idx = ...; if idx is not None: break
RECURSIVE KeywordIndex(_, _)
KeywordIndex(lines, n) ==
    IF n > Len(keywords) THEN -1
    ELSE IF FirstLineWith(lines, keywords[n]) # -1
         THEN FirstLineWith(lines, keywords[n])
         ELSE KeywordIndex(lines, n + 1)

ExcerptWindow(lines, max_lines) ==
    LET idx == KeywordIndex(lines, 1)
    IN  IF idx = -1
        THEN Slice(lines, 0, max_lines)
        ELSE Slice(lines, Max(0, idx - ContextLines),
                   Min(Len(lines), idx + ContextLines))

\* text[:max_chars] + "\n... (truncated)" when len(text) > max_chars
Truncate(text, max_chars) ==
    IF Len(text) > max_chars
    THEN Slice(text, 0, max_chars) \o TruncationMarker
    ELSE text

make_log_excerpt(text, max_lines, max_chars) ==
    Truncate(Strip(JoinLines(ExcerptWindow(SplitLines(text), max_lines))),
             max_chars)

(***************************************************************************)
(* FilesystemTool.  The working tree is a function from the paths that     *)
(* exist (a path is its sequence of components, relative to the checkout)  *)
(* to a node: a directory, or a file with its text.                        *)
(***************************************************************************)
DirNode == [kind |-> "dir", text |-> <<>>]
FileNode(t) == [kind |-> "file", text |-> t]

\* Path(rel_path) for a relative path: components between "/", with empty
\* and "." components dropped
Slashes(s) == {i \in 1..Len(s) : s[i] = "/"}

\* position of the k-th "/", Len(s) + 1 past the last one
KthSlash(s, k) ==
    IF k = 0 THEN 0
    ELSE IF k > Cardinality(Slashes(s)) THEN Len(s) + 1
    ELSE CHOOSE i \in Slashes(s) :
             Cardinality({j \in Slashes(s) : j <= i}) = k

RECURSIVE DropEmptyAndDot(_)
DropEmptyAndDot(parts) ==
    IF parts = <<>> THEN <<>>
    ELSE IF Head(parts) = <<>> \/ Head(parts) = <<".">>
         THEN DropEmptyAndDot(Tail(parts))
         ELSE <<Head(parts)>> \o DropEmptyAndDot(Tail(parts))

PathParts(s) ==
    DropEmptyAndDot([k \in 1..(Cardinality(Slashes(s)) + 1) |->
                        SubSeq(s, KthSlash(s, k - 1) + 1, KthSlash(s, k) - 1)])

\* Path.exists(); the checkout directory itself is the empty path
Exists(tree, p) == p = <<>> \/ p \in DOMAIN tree
IsFile(tree, p) == p \in DOMAIN tree /\ tree[p].kind = "file"

\* the proper ancestors of p below the checkout directory
Ancestors(p) == {SubSeq(p, 1, k) : k \in 1..(Len(p) - 1)}

\* faulty variant: the parsed (stripped, non-blank) lines are written back
AddDependencyTextRewritten(content, dependency) ==
    LET d == Strip(dependency)
        lines == StrippedNonBlank(SplitLines(content))
    IN  IF InList(d, lines) THEN content
        ELSE JoinLines(Append(lines, d)) \o <<NL>>

\* content.splitlines() stripped, blank lines dropped; dep appended unless
\* it is one of them
AddDependencyText(content, dependency) ==
    LET d == Strip(dependency)
        lines == StrippedNonBlank(SplitLines(content))
    IN  IF InList(d, lines) THEN content
        ELSE (IF EndsWithNL(content) THEN content ELSE content \o <<NL>>)
             \o d \o <<NL>>

ReqPath == <<RequirementsTxt>>

\* FilesystemTool.add_dependency: [ok, tree]; read_text raises when
\* requirements.txt is no regular file
add_dependency(tree, dependency) ==
    IF ~IsFile(tree, ReqPath)
    THEN [ok |-> FALSE, tree |-> tree]
    ELSE [ok |-> TRUE,
          tree |-> [tree EXCEPT ![ReqPath] =
                       FileNode(AddDependencyText(tree[ReqPath].text,
                                                  dependency))]]

\* p.parent.mkdir(parents=True, exist_ok=True): raises when the parent or
\* one of its ancestors is a regular file
MkdirParents(tree, p) ==
    IF \E a \in Ancestors(p) : IsFile(tree, a)
    THEN [ok |-> FALSE, tree |-> tree]
    ELSE [ok |-> TRUE,
          tree |-> [a \in (DOMAIN tree \cup Ancestors(p)) |->
                       IF a \in DOMAIN tree THEN tree[a] ELSE DirNode]]

\* faulty variant: p.write_text("") without the exists() test
WriteAlways(tree, p) ==
    IF p = <<>> THEN tree
    ELSE [a \in (DOMAIN tree \cup {p}) |->
             IF a = p THEN FileNode(<<>>) ELSE tree[a]]

\* if not p.exists(): p.write_text("")
WriteIfAbsent(tree, p) ==
    IF Exists(tree, p) THEN tree
    ELSE [a \in (DOMAIN tree \cup {p}) |->
             IF a \in DOMAIN tree THEN tree[a] ELSE FileNode(<<>>)]

\* FilesystemTool.create_placeholder_file: [ok, tree]
create_placeholder_file(tree, rel_path) ==
    LET p == PathParts(rel_path)
        made == MkdirParents(tree, p)
    IN  IF ~made.ok THEN made
        ELSE [ok |-> TRUE, tree |-> WriteIfAbsent(made.tree, p)]

(***************************************************************************)
(* Version control (git status --porcelain, add -A, commit, push).         *)
(***************************************************************************)
\* the regular files of a tree, path -> text: what git tracks
FilesOf(tree) ==
    [p \in {q \in DOMAIN tree : tree[q].kind = "file"} |-> tree[p].text]

\* `git status --porcelain` prints something
StatusDirty(tree, idx, hd) == FilesOf(tree) # idx \/ idx # hd

\* the paths a commit of snapshot `new` over `old` changes
ChangedPaths(old, new) ==
    {p \in DOMAIN old \cup DOMAIN new :
        \/ p \notin DOMAIN old
        \/ p \notin DOMAIN new
        \/ old[p] # new[p]}

(***************************************************************************)
(* CIFixAgent.run: the planner's decision (the if-cascade of run).         *)
(***************************************************************************)
\* faulty variant: the dependency fix is applied without looking at the flag
PlanIgnoringApproval(d, mp, ok_dep, ok_file) ==
    IF Truthy(d) THEN "apply_dep"
    ELSE IF Truthy(mp)
         THEN IF ~ok_file THEN "propose_path" ELSE "apply_path"
         ELSE "unclassified"

\* faulty variant: one flag approves both categories
PlanSharedFlag(d, mp, ok_dep, ok_file) ==
    IF Truthy(d)
    THEN IF ~(ok_dep \/ ok_file) THEN "propose_dep" ELSE "apply_dep"
    ELSE IF Truthy(mp)
         THEN IF ~(ok_dep \/ ok_file) THEN "propose_path" ELSE "apply_path"
         ELSE "unclassified"

\* faulty variant: the path rule is tried before the dependency rule
PlanPathFirst(d, mp, ok_dep, ok_file) ==
    IF Truthy(mp)
    THEN IF ~ok_file THEN "propose_path" ELSE "apply_path"
    ELSE IF Truthy(d)
         THEN IF ~ok_dep THEN "propose_dep" ELSE "apply_dep"
         ELSE "unclassified"

Plan(d, mp, ok_dep, ok_file) ==
    IF Truthy(d)
    THEN IF ~ok_dep THEN "propose_dep" ELSE "apply_dep"
    ELSE IF Truthy(mp)
         THEN IF ~ok_file THEN "propose_path" ELSE "apply_path"
         ELSE "unclassified"

(***************************************************************************)
(* Inputs of the pipeline: log texts of failed CI runs and checkouts.      *)
(***************************************************************************)
Colon == <<":", " ">>
\* "ModuleNotFoundError: No module named '<tok>'"
DepError(tok) ==
    KwModuleNotFound \o Colon \o NoModuleNamed \o <<SQ>> \o tok \o <<SQ>>
\* "FileNotFoundError: No such file or directory: '<tok>'"
PathError(tok) ==
    KwFileNotFound \o Colon \o NoSuchFile \o <<SQ>> \o tok \o <<SQ>>
Noise == <<"o", "k">>

PkgAB == <<"a", "b">>
PkgCD == <<"c", "d">>
FileF == <<"f">>
FileDF == <<"d", "/", "f">>

LogTexts ==
    { Noise,
      JoinLines(<<Noise, KwModuleNotFound \o Colon \o NoModuleNamed \o PkgAB>>),
      JoinLines(<<Noise, DepError(PkgAB), Noise>>),
      DepError(<<" ">> \o PkgAB),
      DepError(<<"a", NL, "b">>),
      JoinLines(<<DepError(<<" ">>), PathError(FileF)>>),
      JoinLines(<<DepError(PkgAB), PathError(FileF)>>),
      JoinLines(<<PathError(FileDF), DepError(PkgAB)>>),
      PathError(FileF),
      PathError(FileDF),
      PathError(RequirementsTxt) }

\* a tree from a set of <<path, node>> pairs
TreeOf(pairs) ==
    [p \in {pr[1] : pr \in pairs} |->
        (CHOOSE pr \in pairs : pr[1] = p)[2]]

\* requirements.txt of the checkout: absent, or one of these texts
ManifestTexts ==
    { <<>>, PkgCD, PkgCD \o <<NL>> \o PkgAB \o <<NL>> }

\* what else the checkout holds
OtherFiles ==
    { {},
      { <<<<FileF>>, FileNode(<<"x">>)>> },
      { <<<<<<"d">>>>, FileNode(<<"x">>)>> },
      { <<<<<<"d">>>>, DirNode>>,
        <<<<<<"d">>, FileF>>, FileNode(<<"x">>)>> } }

\* an unrelated file the working tree may hold untracked
Untracked == { <<<<<<"u">>>>, FileNode(<<"x">>)>> }

VARIABLES
    logs,                   \* the log text of the failed CI run
    has_run_id,             \* GitHubTool.run_id is set
    has_pr_number,          \* GitHubTool.pr_number is set
    approved,               \* CI_JANITOR_APPROVED == "1"
    approved_create_file,   \* CI_JANITOR_APPROVED_CREATE_FILE == "1"
    pc,                     \* position of the invocation
    err,                    \* the exception that ended the invocation
    dep,                    \* run: dep
    missing_path,           \* run: missing_path
    excerpt,                \* run: excerpt
    plan,                   \* the branch of run taken
    ops,                    \* side effects of this invocation, in order
    fs,                     \* the working tree
    fs0,                    \* the working tree when the invocation began
    index,                  \* git index
    head,                   \* git HEAD
    remote,                 \* the branch on origin
    commits,                \* the commits created, each its changed paths
    req_writes,             \* writes of requirements.txt, over all runs
    runs,                   \* invocations started
    calls,                  \* direct calls of a helper, in order
    hist                    \* the values they returned or left behind

vars == <<logs, has_run_id, has_pr_number, approved, approved_create_file,
          pc, err, dep, missing_path, excerpt, plan, ops, fs, fs0, index,
          head, remote, commits, req_writes, runs, calls, hist>>

env_vars == <<has_run_id, has_pr_number, approved, approved_create_file>>
local_vars == <<dep, missing_path, excerpt, plan>>
git_vars == <<index, head, remote, commits>>
direct_vars == <<calls, hist>>

ConfigErrors ==
    {"config:no_credentials", "config:no_ids", "config:no_failed_run", "config:no_pr",
     "config:no_branch"}

(***************************************************************************)
(* The pipeline: repeated invocations of CIFixAgent().run() against one    *)
(* repository and one failed CI run.                                       *)
(***************************************************************************)
Init ==
    /\ logs \in LogTexts
    /\ \E manifest \in ManifestTexts,
          has_manifest \in BOOLEAN,
          other \in OtherFiles,
          dirty \in BOOLEAN :
          LET tracked ==
                  TreeOf(other \cup
                         (IF has_manifest
                          THEN {<<ReqPath, FileNode(manifest)>>}
                          ELSE {}))
          IN  /\ fs = (IF dirty THEN TreeOf(Untracked) @@ tracked
                       ELSE tracked)
              /\ head = FilesOf(tracked)
    /\ fs0 = fs
    /\ index = head
    /\ remote = head
    /\ commits = <<>>
    /\ req_writes = 0
    /\ runs = 0
    /\ has_run_id = FALSE
    /\ has_pr_number = FALSE
    /\ approved = FALSE
    /\ approved_create_file = FALSE
    /\ pc = "idle"
    /\ err = "none"
    /\ dep = None
    /\ missing_path = None
    /\ excerpt = <<>>
    /\ plan = "none"
    /\ ops = <<>>
    /\ calls = <<>>
    /\ hist = <<>>

\* the exception propagates out of run()
Raise(e) ==
    /\ pc' = "error"
    /\ err' = e

\* CIFixAgent.__init__ / GitHubTool.__init__: a new process reads its
\* environment; os.environ["GITHUB_TOKEN"] / ["REPO"] raise KeyError when
\* unset
Start ==
    /\ pc \in {"idle", "done", "error"}
    /\ runs < MaxRuns
    /\ runs' = runs + 1
    /\ \/ /\ Raise("config:no_credentials")
          /\ has_run_id' = FALSE
          /\ has_pr_number' = FALSE
          /\ approved' = FALSE
          /\ approved_create_file' = FALSE
       \/ /\ has_run_id' \in BOOLEAN
          /\ has_pr_number' \in BOOLEAN
          /\ approved' \in BOOLEAN
          /\ approved_create_file' \in BOOLEAN
          /\ pc' = "get_ci_logs"
          /\ err' = "none"
    /\ dep' = None
    /\ missing_path' = None
    /\ excerpt' = <<>>
    /\ plan' = "none"
    /\ ops' = <<>>
    /\ fs0' = fs
    /\ UNCHANGED <<logs, fs, git_vars, req_writes, direct_vars>>

\* GitHubTool.get_ci_logs
GetCiLogs ==
    /\ pc = "get_ci_logs"
    /\ \/ /\ ~has_run_id /\ ~has_pr_number
          /\ Raise("config:no_ids")
          /\ UNCHANGED <<has_run_id, ops>>
       \/ /\ ~has_run_id /\ has_pr_number
          /\ Raise("config:no_failed_run")
          /\ UNCHANGED <<has_run_id, ops>>
       \/ /\ has_run_id \/ has_pr_number
          /\ Raise("upstream")
          /\ UNCHANGED <<has_run_id, ops>>
       \/ /\ has_run_id \/ has_pr_number
          /\ has_run_id' = TRUE
          /\ ops' = Append(ops, "get_ci_logs")
          /\ pc' = "classify"
          /\ UNCHANGED err
    /\ UNCHANGED <<logs, has_pr_number, approved, approved_create_file,
                   local_vars, fs, git_vars, req_writes, runs, fs0, direct_vars>>

\* run, lines 228-236: classify, read the approval flags, cut the excerpt,
\* and take the branch
Classify ==
    /\ pc = "classify"
    /\ dep' = find_missing_dependency(logs)
    /\ missing_path' = find_missing_file_path(logs)
    /\ excerpt' = make_log_excerpt(logs, DefaultMaxLines, DefaultMaxChars)
    /\ plan' = Plan(dep', missing_path', approved, approved_create_file)
    /\ pc' = CASE plan' = "apply_dep" -> "add_dependency"
               [] plan' = "apply_path" -> "create_placeholder_file"
               [] OTHER -> "post_pr_comment"
    /\ UNCHANGED <<logs, env_vars, err, ops, fs, git_vars, req_writes,
                   runs, fs0, direct_vars>>

\* self.fs.add_dependency(dep)
AddDependency ==
    /\ pc = "add_dependency"
    /\ LET r == add_dependency(fs, dep[1])
       IN  \/ /\ ~r.ok
              /\ Raise("fs")
              /\ UNCHANGED <<fs, ops, req_writes>>
           \/ /\ r.ok
              /\ fs' = r.tree
              /\ ops' = ops \o <<"add_dependency">> \o
                        (IF r.tree # fs THEN <<"write_requirements">>
                         ELSE <<>>)
              /\ req_writes' = req_writes + (IF r.tree # fs THEN 1 ELSE 0)
              /\ pc' = "get_branch_name"
              /\ UNCHANGED err
    /\ UNCHANGED <<logs, env_vars, local_vars, git_vars, runs, fs0, direct_vars>>

\* self.fs.create_placeholder_file(missing_path)
CreatePlaceholderFile ==
    /\ pc = "create_placeholder_file"
    /\ LET r == create_placeholder_file(fs, missing_path[1])
       IN  \/ /\ ~r.ok
              /\ Raise("fs")
              /\ UNCHANGED <<fs, ops>>
           \/ /\ r.ok
              /\ fs' = r.tree
              /\ ops' = ops \o <<"create_placeholder_file">> \o
                        (IF FilesOf(r.tree) # FilesOf(fs)
                         THEN <<"write_placeholder">> ELSE <<>>)
              /\ pc' = "get_branch_name"
              /\ UNCHANGED err
    /\ UNCHANGED <<logs, env_vars, local_vars, git_vars, req_writes, runs,
                   fs0, direct_vars>>

\* get_branch_name: PR_BRANCH, GITHUB_REF_NAME or GITHUB_HEAD_REF, else
\* RuntimeError
GetBranchName ==
    /\ pc = "get_branch_name"
    /\ \/ Raise("config:no_branch")
       \/ /\ pc' = "git_config"
          /\ UNCHANGED err
    /\ UNCHANGED <<logs, env_vars, local_vars, ops, fs, git_vars,
                   req_writes, runs, fs0, direct_vars>>

\* commit_and_push_fix: the two `git config` commands (check=True)
GitConfig ==
    /\ pc = "git_config"
    /\ ops' = Append(ops, "commit_and_push_fix")
    /\ \/ Raise("vcs")
       \/ /\ pc' = "git_status"
          /\ UNCHANGED err
    /\ UNCHANGED <<logs, env_vars, local_vars, fs, git_vars,
                   req_writes, runs, fs0, direct_vars>>

\* commit_and_push_fix: `git status --porcelain`; nothing printed: return
GitStatus ==
    /\ pc = "git_status"
    /\ pc' = IF StatusDirty(fs, index, head) THEN "git_add"
             ELSE "post_pr_comment"
    /\ UNCHANGED <<logs, env_vars, local_vars, err, ops, fs, git_vars,
                   req_writes, runs, fs0, direct_vars>>

\* what `git add` stages: -A, the whole working tree
Staged(tree, idx) == FilesOf(tree)

\* commit_and_push_fix: run_git(["git", "add", "-A"])
GitAdd ==
    /\ pc = "git_add"
    /\ \/ /\ Raise("vcs")
          /\ UNCHANGED <<ops, index>>
       \/ /\ index' = Staged(fs, index)
          /\ ops' = Append(ops, "git_add")
          /\ pc' = "git_commit"
          /\ UNCHANGED err
    /\ UNCHANGED <<logs, env_vars, local_vars, fs, head, remote, commits,
                   req_writes, runs, fs0, direct_vars>>

\* commit_and_push_fix: run_git(["git", "commit", "-m", commit_msg])
GitCommit ==
    /\ pc = "git_commit"
    /\ \/ /\ Raise("vcs")
          /\ UNCHANGED <<ops, head, commits>>
       \/ /\ index # head
          /\ head' = index
          /\ commits' = Append(commits, ChangedPaths(head, index))
          /\ ops' = Append(ops, "git_commit")
          /\ pc' = "git_push"
          /\ UNCHANGED err
    /\ UNCHANGED <<logs, env_vars, local_vars, fs, index, remote,
                   req_writes, runs, fs0, direct_vars>>

\* faulty variant: the push runs without check=True, a rejected push goes
\* unnoticed
GitPushUnchecked ==
    /\ pc = "git_push"
    /\ \/ UNCHANGED <<ops, remote>>
       \/ /\ remote' = head
          /\ ops' = Append(ops, "git_push")
    /\ pc' = "post_pr_comment"
    /\ UNCHANGED <<logs, env_vars, local_vars, err, fs, index, head, commits,
                   req_writes, runs, fs0, direct_vars>>

\* commit_and_push_fix: run_git(["git", "push", "origin", f"HEAD:{branch}"])
GitPush ==
    /\ pc = "git_push"
    /\ \/ /\ Raise("vcs")
          /\ UNCHANGED <<ops, remote>>
       \/ /\ remote' = head
          /\ ops' = Append(ops, "git_push")
          /\ pc' = "post_pr_comment"
          /\ UNCHANGED err
    /\ UNCHANGED <<logs, env_vars, local_vars, fs, index, head, commits,
                   req_writes, runs, fs0, direct_vars>>

\* faulty variant: the request fails after the comment was created
PostPrCommentThenRaise ==
    /\ pc = "post_pr_comment"
    /\ ops' = Append(ops, "post_pr_comment")
    /\ \/ Raise("upstream")
       \/ /\ pc' = "done"
          /\ UNCHANGED err
    /\ UNCHANGED <<logs, env_vars, local_vars, fs, git_vars, req_writes,
                   runs, fs0, direct_vars>>

\* GitHubTool.post_pr_comment (get_pr_number, then _post_json), called
\* with the comment of the branch taken
PostPrComment ==
    /\ pc = "post_pr_comment"
    /\ \/ /\ ~has_pr_number
          /\ Raise("config:no_pr")
          /\ UNCHANGED ops
       \/ /\ Raise("upstream")
          /\ UNCHANGED ops
       \/ /\ ops' = Append(ops, "post_pr_comment")
          /\ pc' = "done"
          /\ UNCHANGED err
    /\ UNCHANGED <<logs, env_vars, local_vars, fs, git_vars, req_writes,
                   runs, fs0, direct_vars>>

Next ==
    \/ Start
    \/ GetCiLogs
    \/ Classify
    \/ AddDependency
    \/ CreatePlaceholderFile
    \/ GetBranchName
    \/ GitConfig
    \/ GitStatus
    \/ GitAdd
    \/ GitCommit
    \/ GitPush
    \/ PostPrComment

Spec == Init /\ [][Next]_vars

(***************************************************************************)
(* The helpers called directly, on inputs drawn from bounded sets.         *)
(***************************************************************************)
\* the pipeline is not running
NoPipeline ==
    /\ has_run_id = FALSE
    /\ has_pr_number = FALSE
    /\ approved = FALSE
    /\ approved_create_file = FALSE
    /\ pc = "direct"
    /\ err = "none"
    /\ plan = "none"
    /\ ops = <<>>
    /\ commits = <<>>
    /\ req_writes = 0
    /\ runs = 0
    /\ calls = <<>>

TextAlphabet == {"a", "b", " ", NL}

\* the names run() hands to add_dependency: find_missing_dependency strips
\* the token, `if dep:` drops the empty one
DependencyNames ==
    {Strip(t) : t \in StringsUpTo(TextAlphabet, MaxNameLen)} \ {<<>>}

\* FilesystemTool().add_dependency(dep), repeated, on any manifest text
InitManifest ==
    /\ NoPipeline
    /\ logs = <<>>
    /\ \E m \in StringsUpTo(TextAlphabet, MaxManifestLen) :
          fs = TreeOf({<<ReqPath, FileNode(m)>>})
    /\ fs0 = fs
    /\ index = FilesOf(fs)
    /\ head = index
    /\ remote = index
    /\ dep \in {Some(n) : n \in DependencyNames}
    /\ missing_path = None
    /\ excerpt = <<>>
    /\ hist = <<fs>>

CallAddDependency ==
    /\ pc = "direct"
    /\ dep # None
    /\ Len(calls) < MaxCalls
    /\ LET r == add_dependency(fs, dep[1])
       IN  /\ fs' = r.tree
           /\ calls' = Append(calls, [op |-> "add_dependency", ok |-> r.ok])
           /\ hist' = Append(hist, r.tree)
    /\ UNCHANGED <<logs, env_vars, pc, err, local_vars, ops, fs0, git_vars,
                   req_writes, runs>>

SpecManifest == InitManifest /\ [][CallAddDependency]_vars

PathAlphabet == {"f", "d", "/"}

\* relative paths (the parameter is rel_path)
RelPaths ==
    {s \in StringsUpTo(PathAlphabet, MaxPathLen) : s = <<>> \/ s[1] # "/"}

PlaceholderTrees ==
    { TreeOf(nodes) : nodes \in OtherFiles } \cup
    { TreeOf({ <<<<FileF>>, DirNode>> }),
      TreeOf({ <<<<<<"d">>>>, DirNode>> }),
      TreeOf({ <<<<<<"d">>>>, DirNode>>,
               <<<<<<"d">>, <<"d">>>>, FileNode(<<"x">>)>> }) }

\* FilesystemTool().create_placeholder_file(rel_path), repeated, on any
\* working tree
InitPlaceholder ==
    /\ NoPipeline
    /\ logs = <<>>
    /\ fs \in PlaceholderTrees
    /\ fs0 = fs
    /\ index = FilesOf(fs)
    /\ head = index
    /\ remote = index
    /\ dep = None
    /\ missing_path \in {Some(p) : p \in RelPaths}
    /\ excerpt = <<>>
    /\ hist = <<fs>>

CallCreatePlaceholderFile ==
    /\ pc = "direct"
    /\ missing_path # None
    /\ Len(calls) < MaxCalls
    /\ LET r == create_placeholder_file(fs, missing_path[1])
       IN  /\ fs' = r.tree
           /\ calls' = Append(calls, [op |-> "create_placeholder_file",
                                      ok |-> r.ok])
           /\ hist' = Append(hist, r.tree)
    /\ UNCHANGED <<logs, env_vars, pc, err, local_vars, ops, fs0, git_vars,
                   req_writes, runs>>

SpecPlaceholder == InitPlaceholder /\ [][CallCreatePlaceholderFile]_vars

ExcerptAlphabet == {"a", " ", NL}

\* n lines of other output
Fill(n) == [i \in 1..n |-> <<"a">>]

\* how many lines of other output stand around a keyword line: none, and
\* just under, at and over the context of the window
Paddings == {0, ContextLines - 1, ContextLines, ContextLines + 1}

\* a line of a long log: other output, or one of the keywords
KeywordLines == {<<"a">>, KwModuleNotFound, KwFileNotFound, KwNoSuchFile}


\* logs of many lines with up to two keyword lines among them
LongLogs ==
    { JoinLines(Fill(n1) \o <<k1>> \o Fill(n2) \o <<k2>> \o Fill(n3)) :
        n1 \in Paddings, k1 \in KeywordLines, n2 \in Paddings,
        k2 \in KeywordLines, n3 \in Paddings }

\* make_log_excerpt(logs, max_lines, max_chars) on any log text
InitExcerpt ==
    /\ NoPipeline
    /\ logs \in StringsUpTo(ExcerptAlphabet, MaxLogLen) \cup LogTexts
                \cup LongLogs
    /\ fs = TreeOf({})
    /\ fs0 = fs
    /\ index = FilesOf(fs)
    /\ head = index
    /\ remote = index
    /\ dep = None
    /\ missing_path = None
    /\ excerpt = <<>>
    /\ hist = <<>>

CallMakeLogExcerpt ==
    /\ pc = "direct"
    /\ calls = <<>>
    /\ \E max_lines \in 0..MaxLines \cup {DefaultMaxLines},
          max_chars \in 0..MaxChars \cup {DefaultMaxChars} :
          /\ excerpt' = make_log_excerpt(logs, max_lines, max_chars)
          /\ calls' = <<[op |-> "make_log_excerpt",
                         max_lines |-> max_lines,
                         max_chars |-> max_chars]>>
          /\ hist' = <<excerpt',
                       ExcerptWindow(SplitLines(logs), max_lines)>>
    /\ UNCHANGED <<logs, env_vars, pc, err, dep, missing_path, plan, ops,
                   fs, fs0, git_vars, req_writes, runs>>

SpecExcerpt == InitExcerpt /\ [][CallMakeLogExcerpt]_vars

TokenAlphabet == {"a", " ", NL}

\* prefix, opening quote, token, closing quote
Quoted(prefix, q1, tok, q2) == prefix \o <<q1>> \o tok \o <<q2>>

\* logs of many lines: a first line with or without a keyword of
\* make_log_excerpt, other output, and the line either rule matches, with
\* or without the name of the exception before it
EvidenceLogs ==
    { JoinLines(<<k>> \o Fill(n) \o <<e>>) :
        k \in KeywordLines,
        n \in Paddings,
        e \in {Quoted(NoModuleNamed, SQ, PkgAB, SQ), DepError(PkgAB),
               Quoted(NoSuchFile, SQ, FileF, SQ), PathError(FileF)} }

\* log texts with a quoted token after "No module named ", alone or among
\* other lines, and the log texts of the pipeline
ClassifyLogs ==
    { pre \o Quoted(NoModuleNamed, q1, tok, q2) \o post :
        pre \in {<<>>, Noise \o <<NL>>},
        q1 \in QuoteChars,
        tok \in StringsUpTo(TokenAlphabet, MaxNameLen),
        q2 \in QuoteChars,
        post \in {<<>>, <<NL>> \o Noise, <<NL>> \o PathError(FileF),
                  <<NL>> \o DepError(PkgAB)} }
    \cup EvidenceLogs
    \cup LogTexts

\* run, lines 228-236, on any log text and any flags
InitClassify ==
    /\ NoPipeline
    /\ logs \in ClassifyLogs
    /\ fs = TreeOf({})
    /\ fs0 = fs
    /\ index = FilesOf(fs)
    /\ head = index
    /\ remote = index
    /\ dep = None
    /\ missing_path = None
    /\ excerpt = <<>>
    /\ hist = <<>>

CallClassify ==
    /\ pc = "direct"
    /\ calls = <<>>
    /\ \E ok_dep \in BOOLEAN, ok_file \in BOOLEAN :
          /\ dep' = find_missing_dependency(logs)
          /\ missing_path' = find_missing_file_path(logs)
          /\ excerpt' = make_log_excerpt(logs, DefaultMaxLines,
                                         DefaultMaxChars)
          /\ plan' = Plan(dep', missing_path', ok_dep, ok_file)
          /\ calls' = <<[op |-> "classify",
                         approved |-> ok_dep,
                         approved_create_file |-> ok_file]>>
          /\ hist' = <<plan'>>
    /\ UNCHANGED <<logs, env_vars, pc, err, ops, fs, fs0,
                   git_vars, req_writes, runs>>

SpecClassify == InitClassify /\ [][CallClassify]_vars

(***************************************************************************)
(* The report-only variant (src/cifixagent-demo-fail/agent.py):            *)
(* CIFixAgent.diagnose.                                                    *)
(***************************************************************************)
\* "No module named", the separator of logs.split
NoModuleNamedSep == SubSeq(NoModuleNamed, 1, Len(NoModuleNamed) - 1)

\* s.split(sep)[-1]: the text after the last sep, all of s without one
AfterLast(s, sep) ==
    LET hits == {i \in 1..Len(s) : StartsAt(s, sep, i)}
    IN  IF hits = {} THEN s
        ELSE LET last == CHOOSE i \in hits : \A j \in hits : j <= i
             IN  SubSeq(s, last + Len(sep), Len(s))

\* s.strip(chars)
RECURSIVE LStripOf(_, _)
LStripOf(s, chars) ==
    IF s # <<>> /\ Head(s) \in chars THEN LStripOf(Tail(s), chars) ELSE s

RECURSIVE RStripOf(_, _)
RStripOf(s, chars) ==
    IF s # <<>> /\ s[Len(s)] \in chars
    THEN RStripOf(SubSeq(s, 1, Len(s) - 1), chars)
    ELSE s

StripOf(s, chars) == RStripOf(LStripOf(s, chars), chars)

\* s.split()[0]: the first run of characters that are no whitespace;
\* None stands for the IndexError of an empty list
FirstWord(s) ==
    LET t == LStrip(s)
        ws == {i \in 1..Len(t) : t[i] \in Whitespace}
    IN  IF t = <<>> THEN None
        ELSE IF ws = {} THEN Some(t)
        ELSE Some(SubSeq(t, 1, (CHOOSE i \in ws : \A j \in ws : i <= j) - 1))

\* CIFixAgent.diagnose of the report-only variant
diagnose(text) ==
    IF Contains(text, KwModuleNotFound)
    THEN LET missing ==
                 FirstWord(StripOf(Strip(AfterLast(text, NoModuleNamedSep)),
                                   QuoteChars))
         IN  IF missing = None
             THEN [type |-> "IndexError", dependency |-> <<>>]
             ELSE [type |-> "missing_dependency", dependency |-> missing[1]]
    ELSE IF Contains(text, KwNoSuchFile)
         THEN [type |-> "broken_path", dependency |-> <<>>]
         ELSE [type |-> "unknown", dependency |-> <<>>]

\* log texts with one "ModuleNotFoundError: No module named '<token>'",
\* at the end of the log or followed by further text, and the log texts
\* of the pipeline
DiagnoseLogs ==
    { pre \o Quoted(KwModuleNotFound \o Colon \o NoModuleNamed, q1, tok, q2)
          \o post :
        pre \in {<<>>, Noise \o <<NL>>},
        q1 \in QuoteChars,
        tok \in StringsUpTo(TokenAlphabet, MaxNameLen),
        q2 \in QuoteChars,
        post \in {<<>>, <<NL>> \o Noise, <<" ">> \o Noise,
                  <<NL>> \o PathError(FileF)} }
    \cup LogTexts

InitDiagnose ==
    /\ NoPipeline
    /\ logs \in DiagnoseLogs
    /\ fs = TreeOf({})
    /\ fs0 = fs
    /\ index = FilesOf(fs)
    /\ head = index
    /\ remote = index
    /\ dep = None
    /\ missing_path = None
    /\ excerpt = <<>>
    /\ hist = <<>>

\* diagnosis = self.diagnose(logs)
CallDiagnose ==
    /\ pc = "direct"
    /\ calls = <<>>
    /\ calls' = <<[op |-> "diagnose"]>>
    /\ hist' = <<diagnose(logs)>>
    /\ UNCHANGED <<logs, env_vars, pc, err, local_vars, ops, fs, fs0,
                   git_vars, req_writes, runs>>

SpecDiagnose == InitDiagnose /\ [][CallDiagnose]_vars

(***************************************************************************)
(* Properties of the pipeline (specification Spec).                        *)
(***************************************************************************)
Count(seq, x) == Cardinality({i \in 1..Len(seq) : seq[i] = x})
Did(x) == InList(x, ops)
Before(x, y) ==
    \E i, j \in 1..Len(ops) : i < j /\ ops[i] = x /\ ops[j] = y
GitOps == {"git_add", "git_commit", "git_push"}
NoGitOp == \A i \in 1..Len(ops) : ops[i] \notin GitOps
Classified == plan # "none"
\* the two rules of the classifier match the log text of the run
DepDiagnosed == Truthy(find_missing_dependency(logs))
PathMatched == Truthy(find_missing_file_path(logs))

\* C1: a log diagnosed as a missing dependency with the dependency flag
\* unset only proposes: requirements.txt and the rest of the tree stay as
\* they were, add_dependency and commit_and_push_fix are not called and no
\* commit or push is made; with the flag set the run takes the apply
\* branch: it never proposes, commit_and_push_fix is entered only after
\* add_dependency returned, and a completed run has called both.
C1_ApprovalGating ==
    (Classified /\ Truthy(dep)) =>
        /\ ~approved =>
              /\ plan = "propose_dep"
              /\ fs = fs0
              /\ ~Did("add_dependency")
              /\ ~Did("commit_and_push_fix")
              /\ NoGitOp
        /\ approved =>
              /\ plan = "apply_dep"
              /\ Did("commit_and_push_fix") =>
                    Before("add_dependency", "commit_and_push_fix")
              /\ Did("post_pr_comment") =>
                    Before("commit_and_push_fix", "post_pr_comment")
              /\ pc = "add_dependency" => ops = <<"get_ci_logs">>

\* C1 witness: an approved run appended the dependency, pushed and
\* reported
C1_Witness ==
    /\ pc = "done"
    /\ approved
    /\ plan = "apply_dep"
    /\ Before("write_requirements", "git_push")
    /\ Did("post_pr_comment")

C3_CommentCount ==
    /\ pc = "error" => Count(ops, "post_pr_comment") = 0
    /\ pc = "done" => Count(ops, "post_pr_comment") = 1
    /\ Count(ops, "post_pr_comment") <= 1

\* C3 witness: the push was rejected after the commit; nothing was posted
C3_Witness ==
    /\ pc = "error"
    /\ err = "vcs"
    /\ Did("git_commit")
    /\ ~Did("post_pr_comment")

\* C3 as stated: configuration and upstream errors post nothing, every
\* other terminal state (version-control failure included) posts exactly
\* one comment
C3_Original ==
    /\ (pc = "error" /\ err \in ConfigErrors \cup {"upstream"}) =>
           Count(ops, "post_pr_comment") = 0
    /\ (pc = "done" \/ (pc = "error" /\ err = "vcs")) =>
           Count(ops, "post_pr_comment") = 1

\* C4 as stated: over repeated runs on the same missing-dependency log the
\* name is appended to requirements.txt at most once and at most one
\* commit is created
C4_Original ==
    DepDiagnosed => (req_writes <= 1 /\ Len(commits) <= 1)

\* C5 as stated: when the approved mutation is a no-op (the dependency is
\* already a line, the placeholder already exists) the tree is unchanged,
\* no git add / commit / push runs, and a completed run has posted the
\* confirmation
C5_Original ==
    /\ (Did("add_dependency") /\ ~Did("write_requirements")) =>
           (fs = fs0 /\ NoGitOp /\ (pc = "done" => Did("post_pr_comment")))
    /\ (Did("create_placeholder_file") /\ ~Did("write_placeholder")) =>
           (FilesOf(fs) = FilesOf(fs0) /\ NoGitOp
            /\ (pc = "done" => Did("post_pr_comment")))

\* C10: when both rules match the log text (in either order) the run
\* takes a dependency branch, whatever the flags: create_placeholder_file
\* is never called and no path appears in the tree
C10_DependencyFirst ==
    (Classified /\ DepDiagnosed /\ PathMatched) =>
        /\ plan \in {"propose_dep", "apply_dep"}
        /\ ~Did("create_placeholder_file")
        /\ DOMAIN fs = DOMAIN fs0

\* C10 witness: the path error comes first in the log, only the path flag
\* is set, and the run has proposed the dependency fix
C10_Witness ==
    /\ pc = "done"
    /\ logs = JoinLines(<<PathError(FileDF), DepError(PkgAB)>>)
    /\ approved_create_file
    /\ ~approved
    /\ plan = "propose_dep"
    /\ Did("post_pr_comment")

(***************************************************************************)
(* Properties of add_dependency (specification SpecManifest).              *)
(***************************************************************************)
ManifestText(tree) == tree[ReqPath].text

\* the lines of a text that are not blank, as they stand in the text
RECURSIVE NonBlank(_)
NonBlank(lines) ==
    IF lines = <<>> THEN <<>>
    ELSE IF Strip(Head(lines)) # <<>>
         THEN <<Head(lines)>> \o NonBlank(Tail(lines))
         ELSE NonBlank(Tail(lines))

NonBlankLines(text) == NonBlank(SplitLines(text))

\* C6 as stated: a second add_dependency with the same name leaves the
\* manifest text as the first left it
C6_Original ==
    \A i \in 1..(Len(calls) - 1) :
        ManifestText(hist[i + 2]) = ManifestText(hist[i + 1])

\* C7: add_dependency keeps the non-blank lines of the manifest as they
\* are and in their order; the result's non-blank lines are the input's,
\* followed or not by the appended name
C7_LinesKept ==
    \A i \in 1..Len(calls) :
        LET before == NonBlankLines(ManifestText(hist[i]))
            after == NonBlankLines(ManifestText(hist[i + 1]))
        IN  \/ after = before
            \/ after = before \o NonBlankLines(dep[1])

\* C7 witness: a name was appended to a manifest that had non-blank lines
C7_Witness ==
    /\ Len(calls) = 1
    /\ calls[1].op = "add_dependency"
    /\ NonBlankLines(ManifestText(hist[1])) # <<>>
    /\ ManifestText(hist[2]) # ManifestText(hist[1])

(***************************************************************************)
(* Properties of create_placeholder_file (specification SpecPlaceholder).  *)
(***************************************************************************)
\* C8: create_placeholder_file never changes or removes what exists (a
\* file at the path keeps its text), a second call changes nothing, and
\* when nothing exists at the path a call that returns has made every
\* missing parent a directory and the path an empty file, and nothing
\* else
C8_PlaceholderIdempotent ==
    \A i \in 1..Len(calls) :
        LET before == hist[i]
            after == hist[i + 1]
            p == PathParts(missing_path[1])
        IN  /\ \A q \in DOMAIN before :
                   q \in DOMAIN after /\ after[q] = before[q]
            /\ i > 1 => after = before
            /\ ~calls[i].ok => after = before
            /\ (calls[i].ok /\ ~Exists(before, p)) =>
                   /\ after[p] = FileNode(<<>>)
                   /\ \A a \in Ancestors(p) : after[a] = DirNode
            /\ DOMAIN after \subseteq DOMAIN before \cup {p} \cup Ancestors(p)

\* C8 witness: the first call created the parent directory and the empty
\* file, the second call found the file and left the tree alone
C8_Witness ==
    /\ Len(calls) = 2
    /\ calls[1].op = "create_placeholder_file"
    /\ calls[1].ok /\ calls[2].ok
    /\ LET p == PathParts(missing_path[1])
       IN  /\ Ancestors(p) # {}
           /\ ~(Ancestors(p) \subseteq DOMAIN hist[1])
           /\ hist[2][p] = FileNode(<<>>)
           /\ hist[3] = hist[2]

(***************************************************************************)
(* Properties of make_log_excerpt (specification SpecExcerpt).             *)
(***************************************************************************)
EndsWith(s, suffix) ==
    /\ Len(suffix) <= Len(s)
    /\ SubSeq(s, Len(s) - Len(suffix) + 1, Len(s)) = suffix

\* the excerpt before the cut
Uncut(text, max_lines) ==
    Strip(JoinLines(ExcerptWindow(SplitLines(text), max_lines)))

\* C9 as stated: the excerpt is never longer than max_chars, and ends with
\* the truncation marker when the text was cut
C9_Original ==
    \A i \in 1..Len(calls) :
        /\ Len(hist[i]) <= calls[i].max_chars
        /\ Len(Uncut(logs, calls[i].max_lines)) > calls[i].max_chars =>
               EndsWith(hist[i], TruncationMarker)

(***************************************************************************)
(* Properties of the classifier (specification SpecClassify).              *)
(***************************************************************************)
\* a marker stands at position i of s: the prefix, a quote, a token of
\* n >= 1 characters that are no quotes, a quote
MarkerAt(prefix, s, i, n) ==
    LET q == i + Len(prefix)
    IN  /\ n >= 1
        /\ StartsAt(s, prefix, i)
        /\ q + n + 1 <= Len(s)
        /\ s[q] \in QuoteChars
        /\ \A k \in (q + 1)..(q + n) : s[k] \notin QuoteChars
        /\ s[q + n + 1] \in QuoteChars

Markers(prefix, s) ==
    UNION { { <<i, n>> : n \in {m \in 1..Len(s) : MarkerAt(prefix, s, i, m)} } :
              i \in {j \in 1..Len(s) : StartsAt(s, prefix, j)} }

\* the token of the first marker in s
FirstToken(prefix, s) ==
    LET ms == Markers(prefix, s)
        m == CHOOSE x \in ms : \A y \in ms : x[1] <= y[1]
    IN  SubSeq(s, m[1] + Len(prefix) + 1, m[1] + Len(prefix) + m[2])

\* the token of the first marker is not blank
Names(prefix, s) ==
    Markers(prefix, s) # {} /\ Strip(FirstToken(prefix, s)) # <<>>

\* C11: for a log text with a dependency marker (either quote character
\* on either side), the diagnosis is the missing dependency named by the
\* token of the first marker with the surrounding whitespace stripped;
\* when that token is blank the dependency rule does not apply and the
\* path rule decides: a missing path when the first path marker names
\* one, unclassified otherwise.
C11_TokenStripped ==
    (calls # <<>> /\ calls[1].op = "classify"
     /\ Markers(NoModuleNamed, logs) # {}) =>
        IF Names(NoModuleNamed, logs)
        THEN /\ dep = Some(Strip(FirstToken(NoModuleNamed, logs)))
             /\ plan \in {"propose_dep", "apply_dep"}
        ELSE /\ ~Truthy(dep)
             /\ IF Names(NoSuchFile, logs)
                THEN /\ missing_path =
                            Some(Strip(FirstToken(NoSuchFile, logs)))
                     /\ plan \in {"propose_path", "apply_path"}
                ELSE plan = "unclassified"

\* C11 witness: the token stands between a single and a double quote with
\* a blank before and a line break after it, and the name is the bare
\* token
C11_Witness ==
    /\ calls # <<>>
    /\ calls[1].op = "classify"
    /\ logs = Noise \o <<NL>>
              \o Quoted(NoModuleNamed, SQ, <<" ", "a", NL>>, DQ)
              \o <<NL>> \o PathError(FileF)
    /\ dep = Some(<<"a">>)
    /\ plan = "apply_dep"

(***************************************************************************)
(* Further properties of the pipeline (specification Spec).                *)
(***************************************************************************)
\* the log text of the run holds neither marker
NeitherMarker ==
    Markers(NoModuleNamed, logs) = {} /\ Markers(NoSuchFile, logs) = {}

\* C12: a run on a log text with neither marker, whatever the flags,
\* diagnoses nothing and takes the unclassified branch: the tree is as it
\* was, neither mutator and no git command runs, and the only thing the
\* run does after fetching the logs is post the unclassified comment,
\* which a completed run has done.
C12_UnknownReportsOnly ==
    (Classified /\ NeitherMarker) =>
        /\ dep = None
        /\ missing_path = None
        /\ plan = "unclassified"
        /\ fs = fs0
        /\ pc \in {"post_pr_comment", "done", "error"}
        /\ ops \in {<<"get_ci_logs">>, <<"get_ci_logs", "post_pr_comment">>}
        /\ pc = "done" => ops = <<"get_ci_logs", "post_pr_comment">>

\* C12 witness: the log mentions the error without a quoted name, both
\* flags are set, and the run has posted the unclassified comment
C12_Witness ==
    /\ pc = "done"
    /\ Contains(logs, NoModuleNamed)
    /\ NeitherMarker
    /\ approved
    /\ approved_create_file
    /\ plan = "unclassified"
    /\ ops = <<"get_ci_logs", "post_pr_comment">>
    /\ remote = head

\* the run identifier and the pull-request number did not resolve to each
\* other: neither is set, no failed run is found for the pull request, or
\* the run has no pull request
UnresolvedIdentity ==
    /\ pc = "error"
    /\ err \in {"config:no_ids", "config:no_failed_run", "config:no_pr"}

\* C13 as stated: a run that fails because run identifier and pull-request
\* number do not resolve to each other has failed before classification,
\* so before any change of the tree and before any commit or push
C13_Original ==
    UnresolvedIdentity =>
        /\ ~Classified
        /\ fs = fs0
        /\ ~Did("commit_and_push_fix")
        /\ NoGitOp

\* the place of a step in the order fetch, mutate, commit, push, post
StepRank(op) ==
    CASE op = "get_ci_logs" -> 1
      [] op \in {"add_dependency", "create_placeholder_file"} -> 2
      [] op \in {"write_requirements", "write_placeholder"} -> 3
      [] op = "commit_and_push_fix" -> 4
      [] op = "git_add" -> 5
      [] op = "git_commit" -> 6
      [] op = "git_push" -> 7
      [] op = "post_pr_comment" -> 8

Applying == plan \in {"apply_dep", "apply_path"}
Mutated == Did("add_dependency") \/ Did("create_placeholder_file")

\* C14: in an approved (applying) invocation the steps taken are in the
\* order fetch logs, mutate, commit, push, post comment, each at most
\* once; no step is taken unless the steps before it succeeded: nothing
\* happens after a failed log fetch, no commit without the staging, no
\* push without the commit, and no comment after a commit or push that
\* was begun and did not succeed; a failed invocation has posted nothing.
C14_OrderedFailFast ==
    /\ \A i, j \in 1..Len(ops) :
           i < j => StepRank(ops[i]) < StepRank(ops[j])
    /\ ops # <<>> => ops[1] = "get_ci_logs"
    /\ (pc = "error" /\ ~Did("get_ci_logs")) => (ops = <<>> /\ fs = fs0)
    /\ Applying =>
           /\ Did("commit_and_push_fix") => Mutated
           /\ Did("git_add") => Did("commit_and_push_fix")
           /\ Did("git_commit") => Did("git_add")
           /\ Did("git_push") => Did("git_commit")
           /\ Did("post_pr_comment") =>
                  /\ Did("commit_and_push_fix")
                  /\ Did("git_add") => Did("git_push")
           /\ pc = "error" => ~Did("post_pr_comment")
           /\ (pc = "error" /\ err = "vcs") => Did("commit_and_push_fix")

\* C14 witness: an approved invocation created the placeholder and its
\* commit, the push was rejected, and the invocation ended there
C14_Witness ==
    /\ pc = "error"
    /\ err = "vcs"
    /\ plan = "apply_path"
    /\ ops = <<"get_ci_logs", "create_placeholder_file",
               "write_placeholder", "commit_and_push_fix", "git_add",
               "git_commit">>
    /\ remote # head

\* the path the mutator of this invocation writes
MutatorPath ==
    IF plan = "apply_dep" THEN ReqPath ELSE PathParts(missing_path[1])

\* C15 as stated: the commit of an approved invocation holds the path the
\* mutator changed and no other path, and is created only when the
\* mutator changed something
C15_Original ==
    (Applying /\ Did("git_commit")) =>
        /\ commits[Len(commits)] \subseteq {MutatorPath}
        /\ Did("write_requirements") \/ Did("write_placeholder")

(***************************************************************************)
(* Further properties of add_dependency (specification SpecManifest).      *)
(***************************************************************************)
\* a text without its final line breaks
RECURSIVE WithoutFinalBreaks(_)
WithoutFinalBreaks(text) ==
    IF EndsWithNL(text)
    THEN WithoutFinalBreaks(SubSeq(text, 1, Len(text) - 1))
    ELSE text

\* C16 as stated: when add_dependency appends the name, the result is the
\* previous content, exactly one line break, the name, and exactly one
\* line break, whatever line breaks the manifest ended in
C16_Original ==
    \A i \in 1..Len(calls) :
        LET before == ManifestText(hist[i])
            after == ManifestText(hist[i + 1])
        IN  after # before =>
                after = WithoutFinalBreaks(before) \o <<NL>>
                        \o Strip(dep[1]) \o <<NL>>

(***************************************************************************)
(* Further properties of make_log_excerpt (specification SpecExcerpt).     *)
(***************************************************************************)
\* the 0-based indices of the lines that hold a substring
LinesWith(lines, sub) ==
    {i \in 0..(Len(lines) - 1) : Contains(lines[i + 1], sub)}

Least(S) == CHOOSE i \in S : \A j \in S : i <= j

\* lines [max(0, i - 10), min(len, i + 10)) of the log
WindowAround(lines, i) ==
    SubSeq(lines, Max(0, i - ContextLines) + 1,
           Min(Len(lines), i + ContextLines))

\* the first max_lines lines of the log
FirstLines(lines, max_lines) == SubSeq(lines, 1, Min(max_lines, Len(lines)))

FullDepMarker == KwModuleNotFound \o Colon \o NoModuleNamed

\* the log holds one marker "ModuleNotFoundError: No module named '<T>'"
\* with a name T, and further text after its closing quote
OneMarkerThenText ==
    /\ Cardinality(Markers(NoModuleNamed, logs)) = 1
    /\ Cardinality(Markers(FullDepMarker, logs)) = 1
    /\ Names(FullDepMarker, logs)
    /\ LET m == CHOOSE x \in Markers(FullDepMarker, logs) : TRUE
       IN  m[1] + Len(FullDepMarker) + m[2] + 1 < Len(logs)

\* C18 as stated: for a log with the marker followed by further text,
\* diagnose reports the dependency T (as it stands between the quotes, or
\* without its surrounding whitespace), without a quote character and
\* without text from after the closing quote
C18_Original ==
    (calls # <<>> /\ calls[1].op = "diagnose" /\ OneMarkerThenText) =>
        /\ hist[1].type = "missing_dependency"
        /\ hist[1].dependency \in
               {FirstToken(FullDepMarker, logs),
                Strip(FirstToken(FullDepMarker, logs))}
        /\ \A i \in 1..Len(hist[1].dependency) :
               hist[1].dependency[i] \notin QuoteChars

(***************************************************************************)
(* The excerpt against the diagnosis (specification SpecClassify).         *)
(***************************************************************************)
\* the text the first marker of a rule covers: prefix, quote, token, quote
FirstMatch(prefix, s) ==
    LET ms == Markers(prefix, s)
        m == CHOOSE x \in ms : \A y \in ms : x[1] <= y[1]
    IN  SubSeq(s, m[1], m[1] + Len(prefix) + m[2] + 1)

\* C19 as stated: when the diagnosis is a missing dependency or a missing
\* path, the excerpt cut from the same log holds the text the rule
\* matched (so the line it stands on)
C19_Original ==
    (calls # <<>> /\ calls[1].op = "classify") =>
        /\ Truthy(dep) =>
               Contains(excerpt, FirstMatch(NoModuleNamed, logs))
        /\ (~Truthy(dep) /\ Truthy(missing_path)) =>
               Contains(excerpt, FirstMatch(NoSuchFile, logs))

=============================================================================
